---- MODULE Spec2Model ----
(***************************************************************************)
(* Voice session handlers of mods/apiserver/src/voice/handlers:            *)
(* streamHandler (start-stream verb) and hangupHandler (hangup verb), both *)
(* closed over one VoiceClient, plus the "data" events of the client's     *)
(* transcriptions stream.  Every call a handler makes on a collaborator    *)
(* (ari.channels, the VoiceClient, its transcriptions stream) is appended  *)
(* to one log, calls, in the order the code makes it.                      *)
(***************************************************************************)
EXTENDS Integers, Sequences, FiniteSets

(* Total number of handler invocations and data events in one behaviour. *)
MaxOps == 3

(* Number of checkNumberPreconditions calls in one behaviour. *)
MaxChecks == 2

(* Longest roles table and longest access list given to hasAccess. *)
MaxRoles == 2
MaxAccess == 2

VARIABLES
  voiceClient,   \* the VoiceClient the handlers are closed over, or "undefined"
  listeners,     \* "data" listeners of voiceClient.getTranscriptionsStream(), in registration order
  calls,         \* every call made on ari, the VoiceClient and the stream, in order
  faults,        \* exceptions raised inside the handlers, and whether they escaped
  inputs,        \* history: the requests handled and the data events emitted, in order
  applications,  \* the rows of prisma.application
  checks,        \* the checkNumberPreconditions calls made, with what each did
  roles,         \* the roles table hasAccess reads
  granted        \* the last hasAccess call and its result

voiceVars == <<voiceClient, listeners, calls, faults, inputs>>
numberVars == <<applications, checks>>
accessVars == <<roles, granted>>

vars == <<voiceClient, listeners, calls, faults, inputs, applications, checks, roles, granted>>

-----------------------------------------------------------------------------
(* Strings the code inspects character by character are tuples of characters. *)

Undefined == <<"undefined">>

DirectionIN == <<"I", "N">>
DirectionOUT == <<"O", "U", "T">>
DirectionBOTH == <<"B", "O", "T", "H">>
FormatWAV == <<"W", "A", "V">>
fixme == <<"f", "i", "x", "m", "e">>

StreamDirection == {DirectionIN, DirectionOUT, DirectionBOTH}
StreamAudioFormat == {FormatWAV}
AUDIO_OUT == "AUDIO_OUT"

(* String.prototype.includes *)
Includes(s, sub) ==
  \E i \in 0..(Len(s) - Len(sub)) : SubSeq(s, i + 1, i + Len(sub)) = sub

(* JavaScript truthiness of an optional string: undefined and "" are falsy. *)
Truthy(v) == v # Undefined /\ v # <<>>

SessionRefs == {"S1", "S2"}

(* Values a request may carry in direction / format: absent, each enum     *)
(* member, and one string outside the enum.                                *)
DirectionInputs == StreamDirection \cup {Undefined, <<"O", "U", "T", "X">>}
FormatInputs == StreamAudioFormat \cup {Undefined, <<"M", "P", "3">>}

(* The start-stream requests handled: every combination of absent and     *)
(* valid fields, and each out-of-enum value with the other field absent.   *)
StartStreamRequests ==
  {r \in [sessionRef : SessionRefs, direction : DirectionInputs, format : FormatInputs] :
     /\ r.direction \notin StreamDirection \cup {Undefined} => r.format = Undefined
     /\ r.format \notin StreamAudioFormat \cup {Undefined} => r.direction = Undefined}

VerbRequests == [sessionRef : SessionRefs]

(* How the un-awaited ari.channels.hangup call can end: it returns and the *)
(* backend accepts, it returns a promise that later rejects, or it throws. *)
AriResults == {"ok", "rejects", "throws"}

-----------------------------------------------------------------------------
(* streamHandler *)

(* Mutant: the schema types both fields as optional strings. *)
streamRequestSchemaAnyString(request) == TRUE

streamRequestSchema(request) ==
  /\ request.direction = Undefined \/ request.direction \in StreamDirection
  /\ request.format = Undefined \/ request.format \in StreamAudioFormat

effectiveDirection(direction) == IF Truthy(direction) THEN direction ELSE DirectionBOTH

(* Mutant: the format default is forgotten. *)
effectiveFormatNoDefault(format) == format

effectiveFormat(format) == IF Truthy(format) THEN format ELSE FormatWAV

(* Mutant: the test for BOTH is left to includes("OUT"). *)
subscribesOutIncludesOnly(direction) ==
  Includes(effectiveDirection(direction), DirectionOUT)

subscribesOut(direction) ==
  Includes(effectiveDirection(direction), DirectionOUT)
  \/ effectiveDirection(direction) = DirectionBOTH

(* The closure registered with .on("data", ...): what it captured. *)
dataListener(request, id) ==
  [sessionRef |-> request.sessionRef,
   format |-> effectiveFormat(request.format),
   id |-> id]

streamPayload(listener, data) ==
  [kind |-> "streamPayload",
   sessionRef |-> listener.sessionRef,
   type |-> AUDIO_OUT,
   data |-> data,
   streamRef |-> fixme,
   format |-> listener.format]

startStreamResponse(request) ==
  [kind |-> "startStreamResponse",
   sessionRef |-> request.sessionRef,
   streamRef |-> fixme]

hangupResponse(hangupReq) ==
  [kind |-> "hangupResponse", sessionRef |-> hangupReq.sessionRef]

(* One entry of the call log.  by: the input (index in inputs) during      *)
(* whose handling the call is made; via: the id of the data listener that  *)
(* makes it, 0 when the handler itself makes it.                           *)
Call(target, method, arg, by, via) ==
  [target |-> target, method |-> method, arg |-> arg, by |-> by, via |-> via]

Fault(handler, error, escaped, by) ==
  [handler |-> handler, error |-> error, escaped |-> escaped, by |-> by]

Ops == Len(inputs)

(* The wrapper around streamHandler's body: an error thrown inside is      *)
(* caught and does not leave the handler.                                  *)
withErrorHandling(error, id) == Fault("streamHandler", error, FALSE, id)

(* Mutant: the handler returns after subscribing, without acknowledging. *)
streamHandlerCallsNoAck(request, id) ==
  IF subscribesOut(request.direction)
  THEN <<Call("transcriptionsStream", "on", dataListener(request, id), id, 0)>>
  ELSE <<>>

(* Calls streamHandler makes for an accepted request on a bound client:    *)
(* the subscription (OUT / BOTH only), then the acknowledgment.            *)
streamHandlerCalls(request, id) ==
  LET sub == IF subscribesOut(request.direction)
             THEN <<Call("transcriptionsStream", "on", dataListener(request, id), id, 0)>>
             ELSE <<>>
      ack == <<Call("voiceClient", "sendResponse", startStreamResponse(request), id, 0)>>
  IN sub \o ack

streamHandlerListeners(request, id) ==
  IF subscribesOut(request.direction)
  THEN <<dataListener(request, id)>>
  ELSE <<>>

streamHandler(request) ==
  LET id == Ops + 1 IN
  /\ Ops < MaxOps
  /\ inputs' = Append(inputs, [op |-> "startStream", request |-> request])
  /\ IF ~streamRequestSchema(request)
     THEN \* streamRequestSchema.parse throws; withErrorHandling catches
          /\ faults' = Append(faults, withErrorHandling("ZodError", id))
          /\ UNCHANGED <<voiceClient, listeners, calls>>
     ELSE IF voiceClient = "undefined"
     THEN \* the first use of voiceClient throws; withErrorHandling catches
          /\ faults' = Append(faults, withErrorHandling("TypeError", id))
          /\ UNCHANGED <<voiceClient, listeners, calls>>
     ELSE /\ listeners' = listeners \o streamHandlerListeners(request, id)
          /\ calls' = calls \o streamHandlerCalls(request, id)
          /\ UNCHANGED <<voiceClient, faults>>
  /\ UNCHANGED <<applications, checks, roles, granted>>

-----------------------------------------------------------------------------
(* The transcriptions stream emits one "data" event: every registered      *)
(* listener runs, in registration order, and sends one streamPayload.      *)

RECURSIVE emitData(_, _, _)
emitData(ls, data, by) ==
  IF ls = <<>>
  THEN <<>>
  ELSE <<Call("voiceClient", "sendResponse", streamPayload(Head(ls), data), by, Head(ls).id)>>
       \o emitData(Tail(ls), data, by)

DataEvents == SelectSeq(inputs, LAMBDA e : e.op = "data")

transcriptionData ==
  LET id == Ops + 1
      data == Len(DataEvents) + 1
  IN
  /\ Ops < MaxOps
  /\ voiceClient # "undefined"
  /\ inputs' = Append(inputs, [op |-> "data", data |-> data, listeners |-> Len(listeners)])
  /\ calls' = calls \o emitData(listeners, data, id)
  /\ UNCHANGED <<voiceClient, listeners, faults>>
  /\ UNCHANGED <<applications, checks, roles, granted>>

-----------------------------------------------------------------------------
(* hangupHandler *)

hangupHandlerCalls(hangupReq, ariResult, id) ==
  <<Call("ari.channels", "hangup",
         [channelId |-> hangupReq.sessionRef, result |-> ariResult], id, 0)>>
  \o (IF ariResult = "throws"
      THEN <<>>
      ELSE <<Call("voiceClient", "sendResponse", hangupResponse(hangupReq), id, 0),
             Call("voiceClient", "close", [none |-> TRUE], id, 0)>>)

hangupHandler(hangupReq, ariResult) ==
  LET id == Ops + 1 IN
  /\ Ops < MaxOps
  /\ IF voiceClient = "undefined"
     THEN /\ inputs' = Append(inputs, [op |-> "hangup", request |-> hangupReq, ari |-> "none"])
          /\ UNCHANGED <<voiceClient, listeners, calls, faults>>
     ELSE /\ inputs' = Append(inputs, [op |-> "hangup", request |-> hangupReq, ari |-> ariResult])
          /\ calls' = calls \o hangupHandlerCalls(hangupReq, ariResult, id)
          /\ faults' = IF ariResult = "throws"
                       THEN Append(faults, Fault("hangupHandler", "AriError", TRUE, id))
                       ELSE faults
          /\ UNCHANGED <<voiceClient, listeners>>
  /\ UNCHANGED <<applications, checks, roles, granted>>

-----------------------------------------------------------------------------

(* checkNumberPreconditions (mods/sdk/src/Applications.ts) *)

AppRefs == {<<"a", "1">>, <<"a", "2">>}
AccessKeyIds == {"K1", "K2"}

(* appRef as a caller may pass it: absent, empty, or a reference. *)
AppRefInputs == AppRefs \cup {Undefined, <<>>}

(* prisma.application: ref is the unique key of a row. *)
ApplicationTables ==
  {t \in SUBSET [ref : AppRefs, accessKeyId : AccessKeyIds] :
     \A a, b \in t : a.ref = b.ref => a = b}

(* Mutant: the lookup is by ref alone. *)
applicationWhereRefOnly(appRef, accessKeyId) == [ref |-> appRef]

(* where: { ref: appRef, accessKeyId } *)
applicationWhere(appRef, accessKeyId) ==
  [ref |-> appRef, accessKeyId |-> accessKeyId]

(* prisma.application.findUnique: the row equal to where on every field    *)
(* where names; null is the empty set.                                     *)
findUnique(table, where) ==
  {a \in table : \A f \in DOMAIN where : a[f] = where[f]}

NOT_FOUND == "NOT_FOUND"

GRPCError(code, message) == [code |-> code, message |-> message]

(* What one call does: the lookups it makes and how it ends. *)
checkNumberPreconditionsRun(appRef, accessKeyId) ==
  IF ~Truthy(appRef)
  THEN [appRef |-> appRef, accessKeyId |-> accessKeyId,
        lookups |-> <<>>, outcome |-> "returned", error |-> <<>>]
  ELSE LET where == applicationWhere(appRef, accessKeyId)
           app == findUnique(applications, where)
       IN IF app = {}
          THEN [appRef |-> appRef, accessKeyId |-> accessKeyId,
                lookups |-> <<where>>, outcome |-> "thrown",
                error |-> <<GRPCError(NOT_FOUND,
                                      <<"Application not found for ref: ">> \o appRef)>>]
          ELSE [appRef |-> appRef, accessKeyId |-> accessKeyId,
                lookups |-> <<where>>, outcome |-> "returned", error |-> <<>>]

checkNumberPreconditions(appRef, accessKeyId) ==
  /\ Len(checks) < MaxChecks
  /\ checks' = Append(checks, checkNumberPreconditionsRun(appRef, accessKeyId))
  /\ UNCHANGED <<applications, voiceVars, accessVars>>

-----------------------------------------------------------------------------
(* hasAccess (mods/common/src/identity/hasAccess.ts) *)

RoleNames == {"OWNER", "USER"}
Methods == {"Create", "Get", "Delete"}

(* The access lists a role of the table may have. *)
RoleAccessLists == {<<>>, <<"Create">>, <<"Get">>, <<"Create", "Get">>}

Roles == [name : RoleNames, access : RoleAccessLists]

SeqsUpTo(S, n) == UNION {[1..m -> S] : m \in 0..n}

RoleTables == SeqsUpTo(Roles, MaxRoles)

(* Entries of the access argument; GUEST is a role no table defines. *)
AccessEntries == [accessKeyId : AccessKeyIds, role : RoleNames \cup {"GUEST"}]

AccessLists == SeqsUpTo(AccessEntries, MaxAccess)

(* access.map((a) => a.role) *)
roleList(access) == [i \in 1..Len(access) |-> access[i].role]

(* Array.prototype.includes *)
ArrayIncludes(array, x) == \E i \in 1..Len(array) : array[i] = x

(* roles.find((role) => role.name === r && role.access.includes(method)):  *)
(* the first matching role; undefined is the empty set.                    *)
RECURSIVE find(_, _, _)
find(table, r, method) ==
  IF table = <<>>
  THEN {}
  ELSE IF Head(table).name = r /\ ArrayIncludes(Head(table).access, method)
  THEN {Head(table)}
  ELSE find(Tail(table), r, method)

(* roleList.some((r) => roles.find(...)) *)
RECURSIVE some(_, _)
some(list, method) ==
  IF list = <<>>
  THEN FALSE
  ELSE IF find(roles, Head(list), method) # {}
  THEN TRUE
  ELSE some(Tail(list), method)

(* Mutant: every is used in place of some. *)
RECURSIVE every(_, _)
every(list, method) ==
  IF list = <<>>
  THEN TRUE
  ELSE IF find(roles, Head(list), method) = {}
  THEN FALSE
  ELSE every(Tail(list), method)

hasAccessEvery(access, method) == every(roleList(access), method)

hasAccess(access, method) == some(roleList(access), method)

(* One call per behaviour: the function reads nothing a call changes. *)
hasAccessCall(access, method) ==
  /\ ~granted.called
  /\ granted' = [called |-> TRUE, access |-> access, method |-> method,
                 result |-> hasAccess(access, method)]
  /\ UNCHANGED <<roles, voiceVars, numberVars>>

-----------------------------------------------------------------------------

NoNumbers == applications = {} /\ checks = <<>>

NoAccess ==
  /\ roles = <<>>
  /\ granted = [called |-> FALSE, access |-> <<>>, method |-> "Get", result |-> FALSE]

NoVoice ==
  /\ voiceClient = "undefined"
  /\ listeners = <<>>
  /\ calls = <<>>
  /\ faults = <<>>
  /\ inputs = <<>>

Init ==
  /\ voiceClient \in {"VoiceClient", "undefined"}
  /\ listeners = <<>>
  /\ calls = <<>>
  /\ faults = <<>>
  /\ inputs = <<>>
  /\ NoNumbers
  /\ NoAccess

Next ==
  \/ \E request \in StartStreamRequests : streamHandler(request)
  \/ transcriptionData
  \/ \E hangupReq \in VerbRequests, ariResult \in AriResults :
       hangupHandler(hangupReq, ariResult)

Spec == Init /\ [][Next]_vars

(* The precondition check alone, over every application table. *)
InitNumbers ==
  /\ NoVoice
  /\ NoAccess
  /\ applications \in ApplicationTables
  /\ checks = <<>>

NextNumbers ==
  \E appRef \in AppRefInputs, accessKeyId \in AccessKeyIds :
    checkNumberPreconditions(appRef, accessKeyId)

SpecNumbers == InitNumbers /\ [][NextNumbers]_vars

(* hasAccess alone, over every roles table. *)
InitAccess ==
  /\ NoVoice
  /\ NoNumbers
  /\ roles \in RoleTables
  /\ granted = [called |-> FALSE, access |-> <<>>, method |-> "Get", result |-> FALSE]

NextAccess ==
  \E access \in AccessLists, method \in Methods : hasAccessCall(access, method)

SpecAccess == InitAccess /\ [][NextAccess]_vars

-----------------------------------------------------------------------------
(* Reading the logs. *)

IsSend(c) == c.target = "voiceClient" /\ c.method = "sendResponse"
IsPayload(c) == IsSend(c) /\ c.arg.kind = "streamPayload"
IsAck(c) == IsSend(c) /\ c.arg.kind = "startStreamResponse"
IsHangupResponse(c) == IsSend(c) /\ c.arg.kind = "hangupResponse"
IsClose(c) == c.target = "voiceClient" /\ c.method = "close"
IsSubscribe(c) == c.target = "transcriptionsStream" /\ c.method = "on"
IsAriHangup(c) == c.target = "ari.channels" /\ c.method = "hangup"

CallIdx == 1..Len(calls)
InputIdx == 1..Len(inputs)

(* The calls made while input k was handled, in order. *)
CallsBy(k) == SelectSeq(calls, LAMBDA c : c.by = k)

CloseCalls == Cardinality({i \in CallIdx : IsClose(calls[i])})

(* The transport had been closed before input k was handled. *)
ClosedBefore(k) == \E i \in CallIdx : IsClose(calls[i]) /\ calls[i].by < k

(* Input k is an accepted start-stream request on a bound client. *)
StartedStream(k) ==
  /\ inputs[k].op = "startStream"
  /\ streamRequestSchema(inputs[k].request)
  /\ voiceClient # "undefined"

(* Input k is a hangup request for a session that is active when it arrives. *)
HangupOfActive(k) ==
  /\ inputs[k].op = "hangup"
  /\ voiceClient # "undefined"
  /\ ~ClosedBefore(k)

(* Input k is a hangup request for a terminated or unknown session. *)
HangupOfInactive(k) ==
  /\ inputs[k].op = "hangup"
  /\ (voiceClient = "undefined" \/ ClosedBefore(k))

-----------------------------------------------------------------------------
(* C1: every streamPayload on the response channel comes after the         *)
(* startStreamResponse of the start-stream request whose subscription      *)
(* delivers it.                                                            *)
C1_AckBeforePayload ==
  \A i \in CallIdx :
    IsPayload(calls[i]) =>
      \E j \in 1..(i - 1) : IsAck(calls[j]) /\ calls[j].by = calls[i].via

(* Two start-stream requests were handled and one frame was then delivered *)
(* through the subscription of each.                                       *)
C1_Witness ==
  \E i, j \in CallIdx :
    /\ IsPayload(calls[i])
    /\ IsPayload(calls[j])
    /\ calls[i].via # calls[j].via

(* C2: with an OUT / BOTH subscription in place and the session not        *)
(* terminated, every frame the source emits is sent as exactly one         *)
(* streamPayload, and payloads follow production order.                    *)
C2_EachFrameExactlyOnce ==
  /\ \A k \in InputIdx :
       (inputs[k].op = "data" /\ inputs[k].listeners >= 1 /\ ~ClosedBefore(k)) =>
         Cardinality({i \in CallIdx :
                        IsPayload(calls[i]) /\ calls[i].arg.data = inputs[k].data}) = 1
  /\ \A i, j \in CallIdx :
       (i < j /\ IsPayload(calls[i]) /\ IsPayload(calls[j])) =>
         calls[i].arg.data < calls[j].arg.data

(* C3: every startStreamResponse carries a streamRef that is not the       *)
(* placeholder and differs from the streamRef of every other stream; the   *)
(* payloads of a stream carry the streamRef of its acknowledgment.         *)
C3_UniqueStreamRef ==
  /\ \A i \in CallIdx : IsAck(calls[i]) => calls[i].arg.streamRef # fixme
  /\ \A i, j \in CallIdx :
       (IsAck(calls[i]) /\ IsAck(calls[j]) /\ i # j) =>
         calls[i].arg.streamRef # calls[j].arg.streamRef
  /\ \A i, j \in CallIdx :
       (IsAck(calls[i]) /\ IsPayload(calls[j]) /\ calls[j].via = calls[i].by) =>
         calls[j].arg.streamRef = calls[i].arg.streamRef

(* C4: a hangup request for an active session makes exactly these calls,   *)
(* in this order: ari.channels.hangup with channelId = sessionRef, one     *)
(* hangupResponse with that sessionRef, close; nothing after the close.    *)
C4_HangupSequence ==
  \A k \in InputIdx :
    HangupOfActive(k) =>
      LET cs == CallsBy(k) IN
      /\ Len(cs) = 3
      /\ IsAriHangup(cs[1])
      /\ cs[1].arg.channelId = inputs[k].request.sessionRef
      /\ IsHangupResponse(cs[2])
      /\ cs[2].arg.sessionRef = inputs[k].request.sessionRef
      /\ IsClose(cs[3])

(* C5: once the transport has been closed by hangup, no data listener that *)
(* start-stream registered is still subscribed, and no streamPayload is    *)
(* sent on the closed transport.                                           *)
C5_UnsubscribedOnHangup ==
  /\ CloseCalls > 0 => listeners = <<>>
  /\ \A i, j \in CallIdx :
       (i < j /\ IsClose(calls[i])) => ~IsPayload(calls[j])

(* C6: over any sequence of hangup requests the transport is closed at     *)
(* most once.                                                              *)
C6_ClosedAtMostOnce == CloseCalls <= 1

(* C7: when ari.channels.hangup fails during a hangup of an active         *)
(* session, the transport is still closed by that hangup.                  *)
C7_CloseDespiteAriFailure ==
  \A k \in InputIdx :
    (HangupOfActive(k) /\ inputs[k].ari \in {"rejects", "throws"}) =>
      \E i \in CallIdx : IsClose(calls[i]) /\ calls[i].by = k

(* C8: a hangup request for a terminated or unknown session raises no      *)
(* fault and makes no call at all (no ari hangup, no hangupResponse, no    *)
(* close).                                                                 *)
C8_InactiveHangupIsNoOp ==
  \A k \in InputIdx :
    HangupOfInactive(k) =>
      /\ CallsBy(k) = <<>>
      /\ \A f \in 1..Len(faults) : faults[f].by # k

(* C9: a start-stream request without direction is handled as BOTH (it     *)
(* subscribes), one without format yields only WAV payloads, and either is *)
(* answered by exactly one startStreamResponse carrying its sessionRef.    *)
C9_Defaults ==
  \A k \in InputIdx :
    StartedStream(k) =>
      LET request == inputs[k].request
          cs == CallsBy(k)
      IN
      /\ request.direction = Undefined =>
           /\ Len(cs) = 2
           /\ IsSubscribe(cs[1])
           /\ \E l \in 1..Len(listeners) : listeners[l].id = k
      /\ request.format = Undefined =>
           \A i \in CallIdx :
             (IsPayload(calls[i]) /\ calls[i].via = k) => calls[i].arg.format = FormatWAV
      /\ (request.direction = Undefined \/ request.format = Undefined) =>
           /\ Cardinality({i \in 1..Len(cs) : IsAck(cs[i])}) = 1
           /\ IsAck(cs[Len(cs)])
           /\ cs[Len(cs)].arg.sessionRef = request.sessionRef

(* A request with neither direction nor format has delivered a frame. *)
C9_Witness ==
  \E k \in InputIdx :
    /\ StartedStream(k)
    /\ inputs[k].request.direction = Undefined
    /\ inputs[k].request.format = Undefined
    /\ \E i \in CallIdx : IsPayload(calls[i]) /\ calls[i].via = k

(* C10: a start-stream request with direction IN is never answered with an *)
(* ordinary startStreamResponse while no relay was set up for it.          *)
C10_InNotAcknowledged ==
  \A k \in InputIdx :
    (StartedStream(k) /\ inputs[k].request.direction = DirectionIN) =>
      \/ \E i \in CallIdx : IsSubscribe(calls[i]) /\ calls[i].by = k
      \/ ~\E i \in CallIdx : IsAck(calls[i]) /\ calls[i].by = k

(* A start-stream input whose direction or format is present and is not a  *)
(* member of its enum.                                                     *)
OutsideEnum(k) ==
  /\ inputs[k].op = "startStream"
  /\ \/ inputs[k].request.direction \notin StreamDirection \cup {Undefined}
     \/ inputs[k].request.format \notin StreamAudioFormat \cup {Undefined}

FaultsBy(k) == SelectSeq(faults, LAMBDA f : f.by = k)

(* C11: a start-stream request with an out-of-enum direction or format     *)
(* fails validation inside the wrapper: one fault is raised for it and     *)
(* does not leave the handler, no data listener is registered for it, and  *)
(* no call (subscription, startStreamResponse, streamPayload) is made for  *)
(* it or through it.                                                       *)
C11_RejectedRequestHasNoEffect ==
  \A k \in InputIdx :
    OutsideEnum(k) =>
      /\ Len(FaultsBy(k)) = 1
      /\ FaultsBy(k)[1].handler = "streamHandler"
      /\ ~FaultsBy(k)[1].escaped
      /\ CallsBy(k) = <<>>
      /\ \A l \in 1..Len(listeners) : listeners[l].id # k
      /\ \A i \in CallIdx : calls[i].via # k

(* On a bound client a request with an out-of-enum direction and one with  *)
(* an out-of-enum format were rejected, and a data event followed.         *)
C11_Witness ==
  /\ voiceClient # "undefined"
  /\ \E k, m, d \in InputIdx :
       /\ k < d
       /\ m < d
       /\ OutsideEnum(k)
       /\ inputs[k].request.direction \notin StreamDirection \cup {Undefined}
       /\ OutsideEnum(m)
       /\ inputs[m].request.format \notin StreamAudioFormat \cup {Undefined}
       /\ inputs[d].op = "data"

(* C13: every accepted start-stream request is answered by exactly one     *)
(* startStreamResponse, whatever its direction; for OUT and BOTH the       *)
(* handler first registers its data listener and then acknowledges, for IN *)
(* it only acknowledges; and the stream holds one listener per accepted    *)
(* OUT / BOTH request, a further request adding one more.                  *)
C13_OneAckAfterSubscription ==
  /\ \A k \in InputIdx :
       StartedStream(k) =>
         LET cs == CallsBy(k)
             direction == inputs[k].request.direction
         IN
         /\ Cardinality({i \in 1..Len(cs) : IsAck(cs[i])}) = 1
         /\ direction \in {DirectionOUT, DirectionBOTH} =>
              /\ Len(cs) = 2
              /\ IsSubscribe(cs[1])
              /\ cs[1].arg.id = k
              /\ IsAck(cs[2])
              /\ Cardinality({l \in 1..Len(listeners) : listeners[l].id = k}) = 1
         /\ direction = DirectionIN =>
              /\ Len(cs) = 1
              /\ \A l \in 1..Len(listeners) : listeners[l].id # k
  /\ Len(listeners) =
       Cardinality({k \in InputIdx :
                      /\ StartedStream(k)
                      /\ inputs[k].request.direction \in {DirectionOUT, DirectionBOTH, Undefined}})

(* An IN, an OUT and a BOTH request were handled on one session: all three *)
(* were acknowledged and the stream holds two listeners.                   *)
C13_Witness ==
  /\ Len(listeners) = 2
  /\ \A direction \in StreamDirection :
       \E k \in InputIdx :
         /\ StartedStream(k)
         /\ inputs[k].request.direction = direction
         /\ \E i \in CallIdx : IsAck(calls[i]) /\ calls[i].by = k

(* C12: checkNumberPreconditions returns without a lookup when appRef is   *)
(* absent or empty; otherwise it makes one lookup, by (appRef,             *)
(* accessKeyId), throws NOT_FOUND exactly when no application has that     *)
(* pair, and returns normally when one has.                                *)
C12_NotFoundForThePair ==
  \A c \in 1..Len(checks) :
    LET check == checks[c]
        match == \E a \in applications :
                   a.ref = check.appRef /\ a.accessKeyId = check.accessKeyId
    IN
    IF check.appRef \in {Undefined, <<>>}
    THEN check.lookups = <<>> /\ check.outcome = "returned"
    ELSE /\ check.lookups = <<[ref |-> check.appRef, accessKeyId |-> check.accessKeyId]>>
         /\ check.outcome = "thrown" <=> ~match
         /\ check.outcome = "returned" <=> match
         /\ check.outcome = "thrown" =>
              /\ Len(check.error) = 1
              /\ check.error[1].code = NOT_FOUND

(* The same appRef was checked under two accessKeyIds: the application     *)
(* exists under one, where the check returned, and was reported not found  *)
(* under the other.                                                        *)
C12_Witness ==
  \E c, d \in 1..Len(checks) :
    /\ checks[c].appRef = checks[d].appRef
    /\ checks[c].appRef \in AppRefs
    /\ checks[c].outcome = "returned"
    /\ checks[d].outcome = "thrown"
    /\ \E a \in applications : a.ref = checks[d].appRef

(* C14: hasAccess(access, method) is true exactly when some entry of       *)
(* access names a role of the roles table whose access list contains       *)
(* method; it is false for an empty access list and when no entry names a  *)
(* role of the table; and a true result stays true with any entry added.   *)
C14_HasAccessExactly ==
  granted.called =>
    LET access == granted.access
        method == granted.method
    IN
    /\ granted.result <=>
         \E i \in 1..Len(access), j \in 1..Len(roles) :
           /\ roles[j].name = access[i].role
           /\ \E m \in 1..Len(roles[j].access) : roles[j].access[m] = method
    /\ access = <<>> => ~granted.result
    /\ (\A i \in 1..Len(access), j \in 1..Len(roles) : roles[j].name # access[i].role) =>
         ~granted.result
    /\ granted.result =>
         \A e \in AccessEntries :
           /\ hasAccess(Append(access, e), method)
           /\ hasAccess(<<e>> \o access, method)

(* Access was granted through the second entry of access and the second    *)
(* role of the table, the first entry naming a role the table lacks.       *)
C14_Witness ==
  /\ granted.called
  /\ granted.result
  /\ Len(granted.access) = 2
  /\ granted.access[1].role = "GUEST"
  /\ Len(roles) = 2
  /\ ~ArrayIncludes(roles[1].access, granted.method)

====
